---- MODULE Spec2Model ----
(***************************************************************************)
(* Conversation store, streaming relay and artifact store of the chat     *)
(* server (server.js: src/unnamed/part_000) and of its model client       *)
(* (src/chatbot-app/gemini-client.js).                                     *)
(*                                                                         *)
(* One request is one element of Reqs.  A request handler runs atomically  *)
(* from one await to the next (Node runs one callback at a time), so each  *)
(* action below is the code between two awaits of a handler.               *)
(* Text is a sequence of strings; concatenation is \o.                     *)
(***************************************************************************)
EXTENDS Integers, Sequences, FiniteSets, TLC

\* ---------------------------------------------------------------- bounds
NumReqs == 2        \* message requests sent in one run
MaxConvs == 1       \* conversations created in one run
MaxParts == 2       \* parts the model emits in one run, all requests together
MaxChunkParts == 2  \* parts carried by one chunk / one non-streamed reply
MaxClock == 1       \* last value of the millisecond clock
MaxErrorWords == 3  \* words in the description of a failure
MaxHistory == 4     \* messages in the list handed to a direct client call

Reqs == 1..NumReqs
ConvIds == 1..MaxConvs

\* What the model can put in one part of its output: a text or inline image data.
Parts ==
  [t : {"text"}, v : {"a", "b"}] \cup [t : {"image"}, v : {"x"}]

\* The chunks (streaming) or replies (non-streaming) of at most n parts.
PartSeqs(lo, n) ==
  UNION {[1..k -> Parts] : k \in lo..n}

VARIABLES
  conversations,  \* keys of the Map `conversations`
  messages,       \* messages[c]: the messages array of the conversation object c
  nextConv,       \* conversation identifiers handed out so far
  uploads,        \* the uploads/ directory: file name -> bytes
  now,            \* Date.now()
  pc,             \* pc[r]: where the handler of request r stands
  route,          \* route[r]: "stream", "message", "get" or "delete"
  conv,           \* conv[r]: the conversation object the handler holds
  inv,            \* inv[r]: the handler's and the client's local variables
  events,         \* events[r]: what the handler wrote with res.write, in order
  response,       \* response[r]: the JSON response (status, body), if any
  connected,      \* connected[r]: the client of r still reads the stream
  produced,       \* produced[r]: the parts the model has emitted for r, in order
  partsLeft,      \* parts the model may still emit in this run
  call,           \* a client method called directly: its name and arguments
  client          \* the local variables of that call

vars ==
  <<conversations, messages, nextConv, uploads, now, pc, route, conv, inv,
    events, response, connected, produced, partsLeft, call, client>>

\* The server's handlers leave a direct call of the client alone.
direct == <<call, client>>

\* A direct call of the client leaves the server's state alone.
server ==
  <<conversations, messages, nextConv, uploads, now, pc, route, conv, inv,
    events, response, connected, produced, partsLeft>>

\* ------------------------------------------------------------ identifiers
\* uuidv4() of the user message and of the assistant message of request r.
UserMessageId(r) == 2 * r - 1
AssistantMessageId(r) == 2 * r

\* The request that created the message with identifier id.
ReqOf(id) == (id + 1) \div 2

\* multer's file name of the image uploaded with request r.
UploadName(r) == [kind |-> "upload", t |-> r, n |-> 0]

\* imagePath = null: no image comes with the message.
NoPath == [kind |-> "null", t |-> 0, n |-> 0]

\* `generated-${Date.now()}-${generatedImages.length}.png`
GeneratedName(t, n) == [kind |-> "generated", t |-> t, n |-> n]

\* A write that stores nothing and reports success.
WriteFileNowhere(files, name, bytes) == files

\* fs.writeFileSync(filepath, bytes)
WriteFile(files, name, bytes) ==
  [f \in DOMAIN files \cup {name} |-> IF f = name THEN bytes ELSE files[f]]

\* GET /uploads/:filename
Resolve(files, filename) ==
  IF filename \in DOMAIN files
    THEN [status |-> 200, bytes |-> files[filename]]
    ELSE [status |-> 404, body |-> "Image not found"]

\* ------------------------------------------------------------ text helpers
\* chunk.text() / response.text(): the text parts, concatenated.
RECURSIVE PartsText(_)
PartsText(parts) ==
  IF parts = <<>> THEN <<>>
  ELSE (IF Head(parts).t = "text" THEN <<Head(parts).v>> ELSE <<>>)
         \o PartsText(Tail(parts))

\* `I've generated ${n} image${n > 1 ? 's' : ''} for you:`
DefaultMessage(n) ==
  <<"I've generated ", ToString(n), " image">>
    \o (IF n > 1 THEN <<"s">> ELSE <<>>) \o <<" for you:">>

\* ------------------------------------------------------------------- Init
NoLocals ==
  [userMessage |-> <<>>, prompt |-> <<>>, calls |-> 0, error |-> "",
   responseText |-> <<>>, generatedImages |-> <<>>,
   assistantMessageText |-> <<>>, assistantImages |-> <<>>]

InitServer ==
  /\ conversations = {}
  /\ messages = [c \in ConvIds |-> <<>>]
  /\ nextConv = 0
  /\ uploads = <<>>
  /\ now = 0
  /\ pc = [r \in Reqs |-> "idle"]
  /\ route = [r \in Reqs |-> "none"]
  /\ conv = [r \in Reqs |-> 0]
  /\ inv = [r \in Reqs |-> NoLocals]
  /\ events = [r \in Reqs |-> <<>>]
  /\ response = [r \in Reqs |-> [status |-> 0]]
  /\ connected = [r \in Reqs |-> TRUE]
  /\ produced = [r \in Reqs |-> <<>>]
  /\ partsLeft = MaxParts

NoCall == [method |-> "none", messages |-> <<>>, imagePath |-> NoPath]

NoClient ==
  [pc |-> "idle", context |-> <<>>, text |-> <<>>, attachments |-> <<>>,
   caught |-> <<>>, thrown |-> "", reply |-> <<>>,
   result |-> [text |-> <<>>, images |-> <<>>]]

Init ==
  /\ InitServer
  /\ call = NoCall
  /\ client = NoClient

\* ------------------------------------------------------- conversation store
\* The message texts a client sends.
UserTexts == {<<"hi">>}

\* A push that overwrites the last entry when it has the role of the new one.
AppendMessageOverwriting(list, message) ==
  IF list # <<>> /\ list[Len(list)].role = message.role
    THEN [list EXCEPT ![Len(list)] = message]
    ELSE Append(list, message)

\* conversation.messages.push(message)
AppendMessage(list, message) == Append(list, message)

\* POST /api/conversation
CreateConversation ==
  /\ nextConv < MaxConvs
  /\ nextConv' = nextConv + 1
  /\ conversations' = conversations \cup {nextConv + 1}
  /\ messages' = [messages EXCEPT ![nextConv + 1] = <<>>]
  /\ UNCHANGED direct
  /\ UNCHANGED <<uploads, now, pc, route, conv, inv, events, response,
                 connected, produced, partsLeft>>

NotFound == [status |-> 404, error |-> "Conversation not found"]

\* A lookup that finds every identifier.
HasAnything(id) == TRUE

\* conversations.has(id) / conversations.get(id) is defined
Has(id) == id \in conversations

\* Requests are numbered in the order the server takes them up.
Arrives(r) == \A q \in 1..(r - 1) : pc[q] # "idle"

\* A delete that leaves the entry in the Map.
RemoveNothing(ids, id) == ids

\* conversations.delete(id)
Remove(ids, id) == ids \ {id}

\* GET /api/conversation/:id
GetConversation(r, id) ==
  /\ pc[r] = "idle"
  /\ route' = [route EXCEPT ![r] = "get"]
  /\ IF ~Has(id)
       THEN /\ pc' = [pc EXCEPT ![r] = "notfound"]
            /\ response' = [response EXCEPT ![r] = NotFound]
       ELSE /\ pc' = [pc EXCEPT ![r] = "done"]
            /\ response' = [response EXCEPT ![r] =
                 [status |-> 200, id |-> id, messages |-> messages[id]]]
  /\ UNCHANGED direct
  /\ UNCHANGED <<conversations, messages, nextConv, uploads, now, conv, inv,
                 events, connected, produced, partsLeft>>

\* DELETE /api/conversation/:id
DeleteConversation(r, id) ==
  /\ pc[r] = "idle"
  /\ route' = [route EXCEPT ![r] = "delete"]
  /\ IF Has(id)
       THEN /\ conversations' = Remove(conversations, id)
            /\ pc' = [pc EXCEPT ![r] = "done"]
            /\ response' = [response EXCEPT ![r] =
                 [status |-> 200, message |-> "Conversation deleted"]]
       ELSE /\ conversations' = conversations
            /\ pc' = [pc EXCEPT ![r] = "notfound"]
            /\ response' = [response EXCEPT ![r] = NotFound]
  /\ UNCHANGED direct
  /\ UNCHANGED <<messages, nextConv, uploads, now, conv, inv, events,
                 connected, produced, partsLeft>>

\* ------------------------------------------------------------ the messages
\* The userMessage object of both message routes.
UserMessage(r, message, hasImage) ==
  IF hasImage
    THEN [id |-> UserMessageId(r), role |-> "user", content |-> message,
          image |-> UploadName(r)]
    ELSE [id |-> UserMessageId(r), role |-> "user", content |-> message]

\* The placeholder the streaming route announces before it calls the model.
\* A placeholder that takes the same identifier in every invocation.
PlaceholderShared(r) ==
  [id |-> 0, role |-> "assistant", content |-> <<>>]

Placeholder(r) ==
  [id |-> AssistantMessageId(r), role |-> "assistant", content |-> <<>>]

\* A finalize step that always sets the images field.
FinalizeStreamWithImages(r, assistantMessageText, assistantImages) ==
  [id |-> AssistantMessageId(r), role |-> "assistant",
   content |-> assistantMessageText, images |-> assistantImages]

\* The streaming route's finalize step: the placeholder with its content set,
\* and an images field only if an image was seen.
FinalizeStream(r, assistantMessageText, assistantImages) ==
  IF Len(assistantImages) > 0
    THEN [id |-> AssistantMessageId(r), role |-> "assistant",
          content |-> assistantMessageText, images |-> assistantImages]
    ELSE [id |-> AssistantMessageId(r), role |-> "assistant",
          content |-> assistantMessageText]

\* The assistantMessage object of the non-streaming route.
FinalizeMessage(r, geminiResponse) ==
  IF Len(geminiResponse.images) > 0
    THEN [id |-> AssistantMessageId(r), role |-> "assistant",
          content |-> geminiResponse.text, images |-> geminiResponse.images]
    ELSE [id |-> AssistantMessageId(r), role |-> "assistant",
          content |-> geminiResponse.text]

\* An upload that never reaches the disk.
UploadSkipped(files, r, hasImage) == files

\* multer's upload.single('image'): the file is on disk before the handler runs.
Upload(files, r, hasImage) ==
  IF hasImage THEN WriteFile(files, UploadName(r), "u") ELSE files

\* ------------------------------------------------------- the events written
Event(type, data) == [type |-> type, data |-> data]

Sentinel == [type |-> "[DONE]"]

ErrorEvent == Event("error", [error |-> "Failed to process message"])

\* The two writes that open every stream.
OpeningEvents(userMessage, assistantMessage) ==
  <<Event("user_message", userMessage),
    Event("assistant_message_start", assistantMessage)>>

\* The closing writes without the sentinel.
ClosingEventsNoSentinel(assistantMessage) ==
  <<Event("complete", assistantMessage)>>

\* The writes after the assistant message has been pushed.
ClosingEvents(assistantMessage) ==
  <<Event("complete", assistantMessage), Sentinel>>

\* An onChunk that keeps the incremental text instead of the full text.
OnChunkKeepingDelta(s, id, chunk) ==
  IF chunk.type = "text"
    THEN [s EXCEPT
            !.assistantMessageText = chunk.content,
            !.events = Append(@, Event("text_chunk",
                         [id |-> id, content |-> chunk.content,
                          fullText |-> chunk.fullText]))]
  ELSE IF chunk.type = "image"
    THEN [s EXCEPT
            !.assistantImages = chunk.allImages,
            !.events = Append(@, Event("image_chunk",
                         [id |-> id, image |-> chunk.content,
                          allImages |-> chunk.allImages]))]
  ELSE s

\* An onChunk that keeps the new image instead of the full image list.
OnChunkKeepingLastImage(s, id, chunk) ==
  IF chunk.type = "text"
    THEN [s EXCEPT
            !.assistantMessageText = chunk.fullText,
            !.events = Append(@, Event("text_chunk",
                         [id |-> id, content |-> chunk.content,
                          fullText |-> chunk.fullText]))]
  ELSE IF chunk.type = "image"
    THEN [s EXCEPT
            !.assistantImages = <<chunk.content>>,
            !.events = Append(@, Event("image_chunk",
                         [id |-> id, image |-> chunk.content,
                          allImages |-> chunk.allImages]))]
  ELSE s

\* The onChunk callback of the streaming route, on the handler's locals s.
OnChunk(s, id, chunk) ==
  IF chunk.type = "text"
    THEN [s EXCEPT
            !.assistantMessageText = chunk.fullText,
            !.events = Append(@, Event("text_chunk",
                         [id |-> id, content |-> chunk.content,
                          fullText |-> chunk.fullText]))]
  ELSE IF chunk.type = "image"
    THEN [s EXCEPT
            !.assistantImages = chunk.allImages,
            !.events = Append(@, Event("image_chunk",
                         [id |-> id, image |-> chunk.content,
                          allImages |-> chunk.allImages]))]
  ELSE s

\* ------------------------------------------------------- the model client
\* error.message of what the model call, the stream or the file system throws.
ErrorWords == {"API", "key", "quota", "safety"}

Failures == UNION {[1..k -> ErrorWords] : k \in 0..MaxErrorWords}

\* message.includes(needle)
Includes(message, needle) ==
  \E i \in 1..(Len(message) - Len(needle) + 1) :
    SubSeq(message, i, i + Len(needle) - 1) = needle

InvalidKey ==
  "Invalid API key. Please check your GEMINI_API_KEY environment variable."
QuotaExceeded == "API quota exceeded. Please try again later."
ContentBlocked ==
  "Content was blocked by safety filters. Please try rephrasing your message."
GenericFailure == "Failed to generate response. Please try again."

\* A catch block that looks for 'quota' before 'API key'.
ClassifyQuotaFirst(message) ==
  IF Includes(message, <<"quota">>) THEN QuotaExceeded
  ELSE IF Includes(message, <<"API", "key">>) THEN InvalidKey
  ELSE IF Includes(message, <<"safety">>) THEN ContentBlocked
  ELSE GenericFailure

\* The catch block of generateResponse: the error it throws.
ResponseError(message) ==
  IF Includes(message, <<"API", "key">>) THEN InvalidKey
  ELSE IF Includes(message, <<"quota">>) THEN QuotaExceeded
  ELSE IF Includes(message, <<"safety">>) THEN ContentBlocked
  ELSE GenericFailure

\* The catch block of generateStreamingResponse: the error it throws.
StreamingError(message) ==
  IF Includes(message, <<"API", "key">>) THEN InvalidKey
  ELSE IF Includes(message, <<"quota">>) THEN QuotaExceeded
  ELSE IF Includes(message, <<"safety">>) THEN ContentBlocked
  ELSE GenericFailure

\* A client that calls the model a second time.
CallModelAgain(calls) == calls + 2

\* model.generateContent(parts) / model.generateContentStream(parts)
CallModel(calls) == calls + 1

\* What generateStreamingResponse / generateResponse can reject with.
StreamingErrors == {StreamingError(cause) : cause \in Failures}
ResponseErrors == {ResponseError(cause) : cause \in Failures}

\* msg.role === 'user' ? 'User' : 'Assistant'
RoleName(msg) == IF msg.role = "user" THEN "User" ELSE "Assistant"

Preamble ==
  <<"You are a helpful AI assistant. You can view and analyze images, and generate images when requested.\n\n">>

\* What the loop body of buildConversationContext adds for one message.
ContextLines(msg) ==
  <<RoleName(msg), ": ">> \o msg.content \o <<"\n">>
    \o (IF "image" \in DOMAIN msg
          THEN <<RoleName(msg), " also shared an image.\n">> ELSE <<>>)
    \o (IF "images" \in DOMAIN msg /\ Len(msg.images) > 0
          THEN <<RoleName(msg), " generated ", ToString(Len(msg.images)),
                 " image">>
                 \o (IF Len(msg.images) > 1 THEN <<"s">> ELSE <<>>)
                 \o <<".\n">>
          ELSE <<>>)

\* The loop of buildConversationContext over messages[0 .. n-1].
RECURSIVE ContextOf(_, _)
ContextOf(msgs, n) ==
  IF n = 0 THEN <<>> ELSE ContextOf(msgs, n - 1) \o ContextLines(msgs[n])

\* A context builder that renders the last message as well.
BuildConversationContextAll(msgs) ==
  Preamble \o
    (IF Len(msgs) > 1
       THEN <<"Previous conversation:\n">> \o ContextOf(msgs, Len(msgs))
              \o <<"\nCurrent message:\n">>
       ELSE <<>>)

\* buildConversationContext(messages)
BuildConversationContext(msgs) ==
  Preamble \o
    (IF Len(msgs) > 1
       THEN <<"Previous conversation:\n">> \o ContextOf(msgs, Len(msgs) - 1)
              \o <<"\nCurrent message:\n">>
       ELSE <<>>)

\* A filter that takes every name, stored or not.
ExistingUnchecked(names, files) == names

\* The stored files among names, in order (fs.existsSync, then parts.push).
RECURSIVE Existing(_, _)
Existing(names, files) ==
  IF names = <<>> THEN <<>>
  ELSE (IF Head(names) \in files THEN <<Head(names)>> ELSE <<>>)
         \o Existing(Tail(names), files)

\* The images one message of the recent history contributes to the prompt.
MessageImages(msg) ==
  (IF "image" \in DOMAIN msg /\ msg.role = "user" THEN <<msg.image>> ELSE <<>>)
    \o (IF "images" \in DOMAIN msg /\ msg.role = "assistant"
          THEN msg.images ELSE <<>>)

RECURSIVE RecentImages(_)
RecentImages(msgs) ==
  IF msgs = <<>> THEN <<>>
  ELSE MessageImages(Head(msgs)) \o RecentImages(Tail(msgs))

\* messages.slice(-3)
Recent(msgs) ==
  IF Len(msgs) <= 3 THEN msgs ELSE SubSeq(msgs, Len(msgs) - 2, Len(msgs))

\* if (imagePath && fs.existsSync(imagePath)) parts.push(...)
CurrentImage(imagePath, files) ==
  IF imagePath # NoPath /\ imagePath \in files THEN <<imagePath>> ELSE <<>>

\* A prompt that takes the first message of the list as the current one.
PromptTextOfFirst(msgs) == BuildConversationContext(msgs) \o msgs[1].content

\* parts[0] of both methods: context + lastMessage.content
PromptText(msgs) == BuildConversationContext(msgs) \o msgs[Len(msgs)].content

\* parts[1..] of generateResponse: the files it attaches, in order.
ResponseAttachments(msgs, imagePath, files) ==
  Existing(RecentImages(Recent(msgs)), files) \o CurrentImage(imagePath, files)

\* parts[1..] of generateStreamingResponse.
StreamingAttachments(msgs, imagePath, files) == CurrentImage(imagePath, files)

\* generateStreamingResponse, the image loop over the parts of one chunk:
\* each inline image is written to uploads/, pushed and reported.
RECURSIVE StreamImages(_, _, _, _)
StreamImages(s, id, parts, t) ==
  IF parts = <<>> THEN s
  ELSE IF Head(parts).t = "image"
    THEN LET filename == GeneratedName(t, Len(s.generatedImages))
             s1 == [s EXCEPT !.uploads = WriteFile(@, filename, Head(parts).v),
                             !.generatedImages = Append(@, filename)]
         IN StreamImages(
              OnChunk(s1, id, [type |-> "image", content |-> filename,
                               allImages |-> s1.generatedImages]),
              id, Tail(parts), t)
  ELSE StreamImages(s, id, Tail(parts), t)

\* A loop body that reports the text of the chunk as the full text.
ConsumeChunkDeltaAsFull(s, id, chunk, t) ==
  LET chunkText == PartsText(chunk)
      s1 == IF chunkText # <<>>
              THEN LET s0 == [s EXCEPT !.responseText = @ \o chunkText]
                   IN OnChunk(s0, id, [type |-> "text", content |-> chunkText,
                                       fullText |-> chunkText])
              ELSE s
  IN StreamImages(s1, id, chunk, t)

\* generateStreamingResponse, the body of the for-await loop for one chunk.
ConsumeChunk(s, id, chunk, t) ==
  LET chunkText == PartsText(chunk)
      s1 == IF chunkText # <<>>
              THEN LET s0 == [s EXCEPT !.responseText = @ \o chunkText]
                   IN OnChunk(s0, id, [type |-> "text", content |-> chunkText,
                                       fullText |-> s0.responseText])
              ELSE s
  IN StreamImages(s1, id, chunk, t)

\* What both client methods return: the text, or the default message when
\* there are images and no text, and the list of generated images.
ClientResult(responseText, generatedImages) ==
  [text |-> IF Len(generatedImages) > 0 /\ responseText = <<>>
              THEN DefaultMessage(Len(generatedImages))
              ELSE responseText,
   images |-> generatedImages]

\* generateResponse, the image loop over the parts of the reply.
RECURSIVE SaveImages(_, _, _)
SaveImages(s, parts, t) ==
  IF parts = <<>> THEN s
  ELSE IF Head(parts).t = "image"
    THEN SaveImages(
           [s EXCEPT
              !.uploads = WriteFile(@, GeneratedName(t, Len(s.generatedImages)),
                                    Head(parts).v),
              !.generatedImages =
                 Append(@, GeneratedName(t, Len(s.generatedImages)))],
           Tail(parts), t)
  ELSE SaveImages(s, Tail(parts), t)

\* ------------------------------------------------------- the streaming route
\* The handler's view when it resumes: its locals, its stream and the disk.
Frame(r) ==
  [userMessage |-> inv[r].userMessage,
   prompt |-> inv[r].prompt,
   calls |-> inv[r].calls,
   error |-> inv[r].error,
   responseText |-> inv[r].responseText,
   generatedImages |-> inv[r].generatedImages,
   assistantMessageText |-> inv[r].assistantMessageText,
   assistantImages |-> inv[r].assistantImages,
   events |-> events[r],
   uploads |-> uploads]

Locals(s) ==
  [userMessage |-> s.userMessage,
   prompt |-> s.prompt,
   calls |-> s.calls,
   error |-> s.error,
   responseText |-> s.responseText, generatedImages |-> s.generatedImages,
   assistantMessageText |-> s.assistantMessageText,
   assistantImages |-> s.assistantImages]

\* POST /api/conversation/:id/message/stream, up to the call of the model:
\* not-found guard, push of the user message, the two opening events.
StreamStart(r, id, message, hasImage) ==
  /\ pc[r] = "idle"
  /\ route' = [route EXCEPT ![r] = "stream"]
  /\ uploads' = Upload(uploads, r, hasImage)
  /\ IF ~Has(id)
       THEN /\ pc' = [pc EXCEPT ![r] = "notfound"]
            /\ response' = [response EXCEPT ![r] = NotFound]
            /\ UNCHANGED <<messages, conv, events, inv>>
       ELSE /\ pc' = [pc EXCEPT ![r] = "stream"]
            /\ conv' = [conv EXCEPT ![r] = id]
            /\ messages' = [messages EXCEPT ![id] =
                 AppendMessage(@, UserMessage(r, message, hasImage))]
            /\ events' = [events EXCEPT ![r] =
                 OpeningEvents(UserMessage(r, message, hasImage), Placeholder(r))]
            /\ inv' = [inv EXCEPT
                 ![r].userMessage = UserMessage(r, message, hasImage),
                 ![r].prompt = PromptText(
                    AppendMessage(messages[id],
                                  UserMessage(r, message, hasImage))),
                 ![r].calls = CallModel(@)]
            /\ UNCHANGED response
  /\ UNCHANGED direct
  /\ UNCHANGED <<conversations, nextConv, now, connected, produced, partsLeft>>

\* The stream yields one chunk: one turn of the for-await loop.
StreamChunk(r, chunk) ==
  /\ pc[r] = "stream"
  /\ Len(chunk) <= partsLeft
  /\ LET s == ConsumeChunk(Frame(r), AssistantMessageId(r), chunk, now)
     IN /\ inv' = [inv EXCEPT ![r] = Locals(s)]
        /\ events' = [events EXCEPT ![r] = s.events]
        /\ uploads' = s.uploads
  /\ produced' = [produced EXCEPT ![r] = @ \o chunk]
  /\ partsLeft' = partsLeft - Len(chunk)
  /\ UNCHANGED direct
  /\ UNCHANGED <<conversations, messages, nextConv, now, pc, route, conv,
                 response, connected>>

\* The stream ends: the client returns, the route finalizes the assistant
\* message, pushes it, writes complete and the sentinel, and ends the response.
StreamEnd(r) ==
  /\ pc[r] = "stream"
  /\ LET assistantMessage ==
           FinalizeStream(r, inv[r].assistantMessageText, inv[r].assistantImages)
     IN /\ messages' = [messages EXCEPT ![conv[r]] =
                          AppendMessage(@, assistantMessage)]
        /\ events' = [events EXCEPT ![r] = @ \o ClosingEvents(assistantMessage)]
  /\ pc' = [pc EXCEPT ![r] = "done"]
  /\ UNCHANGED direct
  /\ UNCHANGED <<conversations, nextConv, uploads, now, route, conv, inv,
                 response, connected, produced, partsLeft>>

\* The model call or the stream fails with the description cause: the client
\* throws its classified error, the route's catch writes the error event and
\* ends the response.
StreamFail(r, error) ==
  /\ pc[r] = "stream"
  /\ inv' = [inv EXCEPT ![r].error = error]
  /\ events' = [events EXCEPT ![r] = Append(@, ErrorEvent)]
  /\ pc' = [pc EXCEPT ![r] = "failed"]
  /\ UNCHANGED direct
  /\ UNCHANGED <<conversations, messages, nextConv, uploads, now, route, conv,
                 response, connected, produced, partsLeft>>

\* The browser closes the connection of a stream in flight.  The route
\* registers no close handler, so nothing else changes.
\* The parts of a chunk the loop body has dealt with when the write of the
\* image at position k throws: the text of the whole chunk, reported first,
\* and the images before position k.
Handled(chunk, k) ==
  SubSeq(chunk, 1, k - 1)
    \o SelectSeq(SubSeq(chunk, k + 1, Len(chunk)), LAMBDA p : p.t = "text")

\* fs.writeFileSync throws for the image at position k of a chunk: the client
\* rejects and the route's catch block writes the error event.
StreamWriteFail(r, chunk, k, error) ==
  /\ pc[r] = "stream"
  /\ Len(chunk) <= partsLeft
  /\ k \in 1..Len(chunk)
  /\ chunk[k].t = "image"
  /\ LET s == ConsumeChunk(Frame(r), AssistantMessageId(r),
                           Handled(chunk, k), now)
     IN /\ inv' = [inv EXCEPT ![r] = [Locals(s) EXCEPT !.error = error]]
        /\ events' = [events EXCEPT ![r] = Append(s.events, ErrorEvent)]
        /\ uploads' = s.uploads
  /\ produced' = [produced EXCEPT ![r] = @ \o chunk]
  /\ partsLeft' = partsLeft - Len(chunk)
  /\ pc' = [pc EXCEPT ![r] = "failed"]
  /\ UNCHANGED direct
  /\ UNCHANGED <<conversations, messages, nextConv, now, route, conv,
                 response, connected>>

Disconnect(r) ==
  /\ pc[r] = "stream"
  /\ connected[r]
  /\ connected' = [connected EXCEPT ![r] = FALSE]
  /\ UNCHANGED direct
  /\ UNCHANGED <<conversations, messages, nextConv, uploads, now, pc, route,
                 conv, inv, events, response, produced, partsLeft>>

\* ---------------------------------------------------- the non-streaming route
\* POST /api/conversation/:id/message, up to the call of the model.
MessageStart(r, id, message, hasImage) ==
  /\ pc[r] = "idle"
  /\ route' = [route EXCEPT ![r] = "message"]
  /\ uploads' = Upload(uploads, r, hasImage)
  /\ IF ~Has(id)
       THEN /\ pc' = [pc EXCEPT ![r] = "notfound"]
            /\ response' = [response EXCEPT ![r] = NotFound]
            /\ UNCHANGED <<messages, conv, inv>>
       ELSE /\ pc' = [pc EXCEPT ![r] = "call"]
            /\ conv' = [conv EXCEPT ![r] = id]
            /\ messages' = [messages EXCEPT ![id] =
                 AppendMessage(@, UserMessage(r, message, hasImage))]
            /\ inv' = [inv EXCEPT
                 ![r].userMessage = UserMessage(r, message, hasImage),
                 ![r].prompt = PromptText(
                    AppendMessage(messages[id],
                                  UserMessage(r, message, hasImage))),
                 ![r].calls = CallModel(@)]
            /\ UNCHANGED response
  /\ UNCHANGED direct
  /\ UNCHANGED <<conversations, nextConv, now, events, connected, produced,
                 partsLeft>>

\* model.generateContent(parts) resolves with a reply: the client saves the
\* images and returns, the route pushes the assistant message and answers.
\* (A response.text() that throws is caught and leaves the text empty, as
\* a reply without text parts does.)
MessageFinish(r, reply) ==
  /\ pc[r] = "call"
  /\ Len(reply) <= partsLeft
  /\ LET s == SaveImages([Frame(r) EXCEPT !.responseText = PartsText(reply)],
                         reply, now)
         geminiResponse == ClientResult(s.responseText, s.generatedImages)
         assistantMessage == FinalizeMessage(r, geminiResponse)
     IN /\ inv' = [inv EXCEPT ![r] = Locals(s)]
        /\ uploads' = s.uploads
        /\ messages' = [messages EXCEPT ![conv[r]] =
                          AppendMessage(@, assistantMessage)]
        /\ response' = [response EXCEPT ![r] =
             [status |-> 200, userMessage |-> inv[r].userMessage,
              assistantMessage |-> assistantMessage]]
  /\ produced' = [produced EXCEPT ![r] = reply]
  /\ partsLeft' = partsLeft - Len(reply)
  /\ pc' = [pc EXCEPT ![r] = "done"]
  /\ UNCHANGED direct
  /\ UNCHANGED <<conversations, nextConv, now, route, conv, events, connected>>

\* The 500 body with the client's generic text.
ServerErrorGeneric == [status |-> 500, error |-> GenericFailure]

\* res.status(500).json({ error: 'Failed to process message' })
ServerError == [status |-> 500, error |-> "Failed to process message"]

\* The model call fails with the description cause: the client throws its
\* classified error, the route answers 500.
MessageFail(r, error) ==
  /\ pc[r] = "call"
  /\ inv' = [inv EXCEPT ![r].error = error]
  /\ response' = [response EXCEPT ![r] = ServerError]
  /\ pc' = [pc EXCEPT ![r] = "failed"]
  /\ UNCHANGED direct
  /\ UNCHANGED <<conversations, messages, nextConv, uploads, now, route, conv,
                 events, connected, produced, partsLeft>>

\* A millisecond passes.
Tick ==
  /\ now < MaxClock
  /\ now' = now + 1
  /\ UNCHANGED direct
  /\ UNCHANGED <<conversations, messages, nextConv, uploads, pc, route, conv,
                 inv, events, response, connected, produced, partsLeft>>

Next ==
  \/ CreateConversation
  \/ \E r \in Reqs, id \in ConvIds : Arrives(r) /\ GetConversation(r, id)
  \/ \E r \in Reqs, id \in ConvIds : Arrives(r) /\ DeleteConversation(r, id)
  \/ \E r \in Reqs, id \in ConvIds, message \in UserTexts, hasImage \in BOOLEAN :
       Arrives(r) /\ StreamStart(r, id, message, hasImage)
  \/ \E r \in Reqs, chunk \in PartSeqs(1, MaxChunkParts) : StreamChunk(r, chunk)
  \/ \E r \in Reqs : StreamEnd(r)
  \/ \E r \in Reqs, error \in StreamingErrors : StreamFail(r, error)
  \/ \E r \in Reqs, chunk \in PartSeqs(1, MaxChunkParts),
          k \in 1..MaxChunkParts, error \in StreamingErrors :
       StreamWriteFail(r, chunk, k, error)
  \/ \E r \in Reqs : Disconnect(r)
  \/ \E r \in Reqs, id \in ConvIds, message \in UserTexts, hasImage \in BOOLEAN :
       Arrives(r) /\ MessageStart(r, id, message, hasImage)
  \/ \E r \in Reqs, reply \in PartSeqs(0, MaxChunkParts) : MessageFinish(r, reply)
  \/ \E r \in Reqs, error \in ResponseErrors : MessageFail(r, error)
  \/ Tick

Spec == Init /\ [][Next]_vars

\* The model's stream of an invocation ends or fails: the for-await loop of
\* the client is left, by its end or by an exception.
StreamSettles(r) ==
  StreamEnd(r) \/ \E error \in StreamingErrors : StreamFail(r, error)

FairSpec == Spec /\ \A r \in Reqs : WF_vars(StreamSettles(r))

\* ------------------------------------------ the client, called directly
\* The message lists handed to a direct call: what the routes store, message
\* i being the question or the answer of request i.
PromptTexts == {<<"hi">>, <<"yo">>}

GeneratedLists ==
  {<<>>, <<GeneratedName(0, 0)>>, <<GeneratedName(0, 0), GeneratedName(0, 1)>>}

MessagesAt(i) ==
  {UserMessage(i, t, b) : t \in PromptTexts, b \in BOOLEAN}
    \cup {FinalizeStream(i, <<"a">>, g) : g \in GeneratedLists}

RECURSIVE Histories(_)
Histories(k) ==
  IF k = 0 THEN {<<>>}
  ELSE {Append(h, m) : h \in Histories(k - 1), m \in MessagesAt(k)}

Range(seq) == {seq[i] : i \in 1..Len(seq)}

\* The files a call can look for.
FilesOf(msgs, imagePath) ==
  (Range(RecentImages(msgs)) \cup {imagePath}) \ {NoPath}

\* The uploads/ directory holding the files of names.
Stored(names) == [f \in names |-> "x"]

\* A direct call with a list of k messages; at most one of the files it
\* can look for is not in uploads/.
InitCall(sizes) ==
  /\ conversations = {}
  /\ messages = [c \in ConvIds |-> <<>>]
  /\ nextConv = 0
  /\ now = 0
  /\ pc = [r \in Reqs |-> "idle"]
  /\ route = [r \in Reqs |-> "none"]
  /\ conv = [r \in Reqs |-> 0]
  /\ inv = [r \in Reqs |-> NoLocals]
  /\ events = [r \in Reqs |-> <<>>]
  /\ response = [r \in Reqs |-> [status |-> 0]]
  /\ connected = [r \in Reqs |-> TRUE]
  /\ produced = [r \in Reqs |-> <<>>]
  /\ partsLeft = MaxParts
  /\ \E k \in sizes, method \in {"generateResponse", "generateStreamingResponse"} :
       \E msgs \in Histories(k) :
         \E imagePath \in {NoPath, UploadName(k)} :
           /\ call = [method |-> method, messages |-> msgs,
                      imagePath |-> imagePath]
           /\ \E names \in {FilesOf(msgs, imagePath)}
                         \cup {FilesOf(msgs, imagePath) \ {f} :
                                 f \in FilesOf(msgs, imagePath)} :
                uploads = Stored(names)
  /\ client = NoClient

\* generateResponse up to the model call: the prompt is assembled.
ResponsePrompt ==
  /\ call.method = "generateResponse"
  /\ client.pc = "idle"
  /\ client' = [client EXCEPT
       !.pc = "built",
       !.context = BuildConversationContext(call.messages),
       !.text = PromptText(call.messages),
       !.attachments =
          ResponseAttachments(call.messages, call.imagePath, DOMAIN uploads)]
  /\ UNCHANGED <<server, call>>

\* generateStreamingResponse up to the model call.
StreamingPrompt ==
  /\ call.method = "generateStreamingResponse"
  /\ client.pc = "idle"
  /\ client' = [client EXCEPT
       !.pc = "built",
       !.context = BuildConversationContext(call.messages),
       !.text = PromptText(call.messages),
       !.attachments =
          StreamingAttachments(call.messages, call.imagePath, DOMAIN uploads)]
  /\ UNCHANGED <<server, call>>

\* The model call of generateResponse fails: the catch block.
ResponseThrows(cause) ==
  /\ call.method = "generateResponse"
  /\ client.pc = "built"
  /\ client' = [client EXCEPT
       !.pc = "failed", !.caught = cause, !.thrown = ResponseError(cause)]
  /\ UNCHANGED <<server, call>>

\* The model call or the stream of generateStreamingResponse fails.
StreamingThrows(cause) ==
  /\ call.method = "generateStreamingResponse"
  /\ client.pc = "built"
  /\ client' = [client EXCEPT
       !.pc = "failed", !.caught = cause, !.thrown = StreamingError(cause)]
  /\ UNCHANGED <<server, call>>

InitPrompt == InitCall(1..MaxHistory)

NextPrompt ==
  \/ ResponsePrompt
  \/ StreamingPrompt

PromptSpec == InitPrompt /\ [][NextPrompt]_vars

InitError == InitCall({1})

NextError ==
  \/ ResponsePrompt
  \/ StreamingPrompt
  \/ \E cause \in Failures : ResponseThrows(cause)
  \/ \E cause \in Failures : StreamingThrows(cause)

ErrorSpec == InitError /\ [][NextError]_vars

\* generateResponse from the model's reply to its return statement.
ResponseReturns(reply) ==
  /\ call.method = "generateResponse"
  /\ client.pc = "built"
  /\ LET s == SaveImages([uploads |-> uploads, generatedImages |-> <<>>],
                         reply, now)
     IN /\ uploads' = s.uploads
        /\ client' = [client EXCEPT
             !.pc = "returned",
             !.reply = reply,
             !.result = ClientResult(PartsText(reply), s.generatedImages)]
  /\ UNCHANGED <<conversations, messages, nextConv, now, pc, route, conv, inv,
                 events, response, connected, produced, partsLeft, call>>

NextReply ==
  \/ ResponsePrompt
  \/ \E reply \in PartSeqs(0, MaxChunkParts) : ResponseReturns(reply)

ReplySpec == InitError /\ [][NextReply]_vars

\* --------------------------- races: one more request, one more conversation
\* Runs that start with the conversations already created and have text
\* only: no upload, no image, no failure.
RaceReqs == 1..(NumReqs + 1)
RaceConvs == 1..(MaxConvs + 1)

RaceParts == {<<[t |-> "text", v |-> "a"]>>}

InitRace ==
  /\ conversations = RaceConvs
  /\ messages = [c \in RaceConvs |-> <<>>]
  /\ nextConv = MaxConvs + 1
  /\ uploads = <<>>
  /\ now = 0
  /\ pc = [r \in RaceReqs |-> "idle"]
  /\ route = [r \in RaceReqs |-> "none"]
  /\ conv = [r \in RaceReqs |-> 0]
  /\ inv = [r \in RaceReqs |-> NoLocals]
  /\ events = [r \in RaceReqs |-> <<>>]
  /\ response = [r \in RaceReqs |-> [status |-> 0]]
  /\ connected = [r \in RaceReqs |-> TRUE]
  /\ produced = [r \in RaceReqs |-> <<>>]
  /\ partsLeft = MaxParts
  /\ call = NoCall
  /\ client = NoClient

NextRace ==
  \/ \E r \in RaceReqs, id \in RaceConvs : Arrives(r) /\ GetConversation(r, id)
  \/ \E r \in RaceReqs, id \in RaceConvs :
       Arrives(r) /\ DeleteConversation(r, id)
  \/ \E r \in RaceReqs, id \in RaceConvs, message \in PromptTexts :
       Arrives(r) /\ StreamStart(r, id, message, FALSE)
  \/ \E r \in RaceReqs, chunk \in RaceParts : StreamChunk(r, chunk)
  \/ \E r \in RaceReqs : StreamEnd(r)
  \/ \E r \in RaceReqs, id \in RaceConvs, message \in PromptTexts :
       Arrives(r) /\ MessageStart(r, id, message, FALSE)
  \/ \E r \in RaceReqs, reply \in RaceParts : MessageFinish(r, reply)

RaceSpec == InitRace /\ [][NextRace]_vars

\* ------------------------------------- the artifact store, richer image data
\* Runs without uploads and failures, where the model emits images of two
\* different contents.
StoreParts ==
  [t : {"text"}, v : {"a"}] \cup [t : {"image"}, v : {"x", "y"}]

StorePartSeqs(lo, n) ==
  UNION {[1..k -> StoreParts] : k \in lo..n}

NextStore ==
  \/ CreateConversation
  \/ \E r \in Reqs, id \in ConvIds, message \in UserTexts :
       Arrives(r) /\ StreamStart(r, id, message, FALSE)
  \/ \E r \in Reqs, chunk \in StorePartSeqs(1, MaxChunkParts) :
       StreamChunk(r, chunk)
  \/ \E r \in Reqs : StreamEnd(r)
  \/ \E r \in Reqs, id \in ConvIds, message \in UserTexts :
       Arrives(r) /\ MessageStart(r, id, message, FALSE)
  \/ \E r \in Reqs, reply \in StorePartSeqs(0, MaxChunkParts) :
       MessageFinish(r, reply)
  \/ Tick

StoreSpec == Init /\ [][NextStore]_vars

\* ================================================================ properties
Streams == {r \in Reqs : route[r] = "stream"}

\* The image list of a message: its images field, or no image when absent.
ImagesOf(m) == IF "images" \in DOMAIN m THEN m.images ELSE <<>>

\* The entries of the conversation of r that request r put there.
EntriesOf(r) ==
  IF conv[r] = 0 THEN <<>>
  ELSE SelectSeq(messages[conv[r]], LAMBDA m : ReqOf(m.id) = r)

\* The assistant messages of r in its conversation (one, once finalized).
AnswersOf(r) == SelectSeq(EntriesOf(r), LAMBDA m : m.role = "assistant")

\* The events of one type on the stream of r, in emission order.
EventsOfType(r, type) == SelectSeq(events[r], LAMBDA e : e.type = type)

\* The content values of the text_chunk events, concatenated in order.
RECURSIVE JoinContent(_)
JoinContent(evs) ==
  IF evs = <<>> THEN <<>> ELSE Head(evs).data.content \o JoinContent(Tail(evs))

\* The references of the image_chunk events, in order.
RefsOf(evs) == [i \in 1..Len(evs) |-> evs[i].data.image]

OnlyImages(parts) == \A i \in 1..Len(parts) : parts[i].t = "image"

\* C1: once a message invocation has failed, the conversation's list holds no
\* entry of that invocation (it is what it was before the invocation started).
C1_FailureLeavesListUnchanged ==
  \A r \in Reqs : pc[r] = "failed" => EntriesOf(r) = <<>>

\* C2: every assistant message in a conversation's list is immediately
\* preceded by the user message of the same invocation.
C2_AnswerFollowsItsQuestion ==
  \A c \in ConvIds : \A i \in 1..Len(messages[c]) :
    messages[c][i].role = "assistant" =>
      /\ i > 1
      /\ messages[c][i - 1].id = UserMessageId(ReqOf(messages[c][i].id))

\* C3: when a streaming invocation has completed, the content of the message
\* of its complete event, which is the message appended to the conversation,
\* is the concatenation of the content of its text_chunk events, in order.
C3_ContentIsJoinedTextChunks ==
  \A r \in Streams : pc[r] = "done" =>
    /\ Len(EventsOfType(r, "complete")) = 1
    /\ EventsOfType(r, "complete")[1].data.content
         = JoinContent(EventsOfType(r, "text_chunk"))
    /\ AnswersOf(r) = <<EventsOfType(r, "complete")[1].data>>

C3_Witness ==
  \E r \in Streams :
    /\ pc[r] = "done"
    /\ Len(EventsOfType(r, "text_chunk")) = 2
    /\ JoinContent(EventsOfType(r, "text_chunk")) = <<"a", "b">>

\* C4: when a streaming invocation has completed, the image list of its
\* finalized assistant message is the list of the references of its
\* image_chunk events, in emission order.
C4_ImagesAreImageChunkRefs ==
  \A r \in Streams : pc[r] = "done" =>
    /\ Len(AnswersOf(r)) = 1
    /\ ImagesOf(AnswersOf(r)[1]) = RefsOf(EventsOfType(r, "image_chunk"))

C4_Witness ==
  \E r \in Streams :
    /\ pc[r] = "done"
    /\ Len(EventsOfType(r, "image_chunk")) = 2
    /\ Len(ImagesOf(AnswersOf(r)[1])) = 2

\* C5: a completed streaming invocation whose model output was n >= 1 images
\* and no text has the default message for n as content and n images.
C5_StreamDefaultMessage ==
  \A r \in Streams :
    (pc[r] = "done" /\ produced[r] # <<>> /\ OnlyImages(produced[r])) =>
      /\ Len(AnswersOf(r)) = 1
      /\ AnswersOf(r)[1].content = DefaultMessage(Len(produced[r]))
      /\ Len(ImagesOf(AnswersOf(r)[1])) = Len(produced[r])

\* C6: a streaming and a non-streaming invocation that completed on the same
\* model output appended assistant messages with the same content, as many
\* images, and both with or both without the images field.
C6_SameFinalize ==
  \A r1, r2 \in Reqs :
    (/\ route[r1] = "stream" /\ route[r2] = "message"
     /\ pc[r1] = "done" /\ pc[r2] = "done"
     /\ produced[r1] = produced[r2]) =>
      /\ AnswersOf(r1)[1].content = AnswersOf(r2)[1].content
      /\ Len(ImagesOf(AnswersOf(r1)[1])) = Len(ImagesOf(AnswersOf(r2)[1]))
      /\ ("images" \in DOMAIN AnswersOf(r1)[1])
           <=> ("images" \in DOMAIN AnswersOf(r2)[1])

IsChunk(e) == e.type \in {"text_chunk", "image_chunk"}

\* C7: the events written on a stream are user_message, then
\* assistant_message_start with an empty placeholder, then text_chunk and
\* image_chunk events, then nothing more while the model runs, complete and the
\* sentinel once done (the complete message being in the conversation's list),
\* or error once failed; a request that wrote no opening event wrote no event.
C7_EventShape ==
  \A r \in Reqs :
    LET evs == events[r]
        n == Len(evs)
        last == CASE pc[r] = "done" -> n - 2
                  [] pc[r] = "failed" -> n - 1
                  [] OTHER -> n
    IN IF route[r] = "stream" /\ pc[r] \in {"stream", "done", "failed"}
         THEN /\ last >= 2
              /\ evs[1].type = "user_message"
              /\ evs[1].data.id = UserMessageId(r)
              /\ evs[2].type = "assistant_message_start"
              /\ evs[2].data.content = <<>>
              /\ "images" \notin DOMAIN evs[2].data
              /\ \A i \in 3..last : IsChunk(evs[i])
              /\ pc[r] = "done" =>
                   /\ evs[n - 1].type = "complete"
                   /\ evs[n] = Sentinel
                   /\ AnswersOf(r) = <<evs[n - 1].data>>
              /\ pc[r] = "failed" => evs[n] = ErrorEvent
         ELSE evs = <<>>

C7_Witness ==
  \E r \in Streams :
    /\ pc[r] = "done"
    /\ Len(events[r]) = 6
    /\ events[r][3].type = "image_chunk"
    /\ events[r][4].type = "text_chunk"

\* C8: a stream whose client disconnected while it was in flight never gets
\* an assistant message into the conversation's list.
C8_DisconnectedNotAppended ==
  \A r \in Streams : ~connected[r] => AnswersOf(r) = <<>>

\* The requests that have pushed onto the list of conversation c.
Invocations(c) == {r \in Reqs : conv[r] = c}

\* C9: when every invocation on an existing conversation has completed
\* normally, N of them, the list has 2N entries, holding the user message and
\* the assistant message of each invocation once; with N = 1 the list is the
\* user message followed by the assistant message.
C9_NoLostAppend ==
  \A c \in conversations :
    (\A r \in Invocations(c) : pc[r] = "done") =>
      /\ Len(messages[c]) = 2 * Cardinality(Invocations(c))
      /\ \A r \in Invocations(c) :
           /\ Len(SelectSeq(messages[c],
                            LAMBDA m : m.id = UserMessageId(r))) = 1
           /\ Len(SelectSeq(messages[c],
                            LAMBDA m : m.id = AssistantMessageId(r))) = 1
      /\ \A r \in Invocations(c) :
           Invocations(c) = {r} =>
             /\ messages[c][1].id = UserMessageId(r)
             /\ messages[c][2].id = AssistantMessageId(r)

C9_Witness ==
  \E c \in conversations :
    /\ Cardinality(Invocations(c)) = 2
    /\ \A r \in Invocations(c) : pc[r] = "done"
    /\ messages[c][1].role = "user"
    /\ messages[c][2].role = "user"

\* C10: any two images persisted, by one invocation or by two, were given
\* different file names.
C10_DistinctFilenames ==
  \A r1, r2 \in Reqs :
    \A i \in 1..Len(inv[r1].generatedImages) :
      \A j \in 1..Len(inv[r2].generatedImages) :
        (r1 # r2 \/ i # j) =>
          inv[r1].generatedImages[i] # inv[r2].generatedImages[j]

\* C11: every image reference in a message of an existing conversation, the
\* user's image or one of the assistant's images, resolves to stored bytes.
C11_ReferencesResolve ==
  \A c \in conversations : \A i \in 1..Len(messages[c]) :
    LET m == messages[c][i]
    IN /\ "image" \in DOMAIN m => Resolve(uploads, m.image).status = 200
       /\ \A j \in 1..Len(ImagesOf(m)) :
            Resolve(uploads, ImagesOf(m)[j]).status = 200

C11_Witness ==
  \E c \in conversations :
    /\ Len(messages[c]) = 2
    /\ "image" \in DOMAIN messages[c][1]
    /\ Len(ImagesOf(messages[c][2])) = 2

\* A step in which request r is a fetch, a delete or a message for id.
RequestOn(r, id) ==
  \/ GetConversation(r, id)
  \/ DeleteConversation(r, id)
  \/ \E message \in UserTexts, hasImage \in BOOLEAN :
       \/ StreamStart(r, id, message, hasImage)
       \/ MessageStart(r, id, message, hasImage)

\* C12: a fetch, a delete or a message (streamed or not) for an identifier
\* that is not in the store answers 404 'Conversation not found', changes
\* neither the set of conversations nor any message list, calls the model
\* not at all and writes no event.
C12_AbsentIsNotFound ==
  [][\A r \in Reqs, id \in ConvIds :
       (id \notin conversations /\ RequestOn(r, id)) =>
         /\ response'[r] = NotFound
         /\ pc'[r] = "notfound"
         /\ inv'[r].calls = 0
         /\ events'[r] = <<>>
         /\ UNCHANGED <<conversations, messages, produced, partsLeft>>]_vars

C12_Witness ==
  \E r1, r2 \in Reqs :
    /\ route[r1] = "stream" /\ pc[r1] = "notfound"
    /\ route[r2] = "delete" /\ pc[r2] = "notfound"
    /\ response[r1] = NotFound /\ response[r2] = NotFound

\* The identifier was handed out and is no longer in the store.
Deleted(id) == id <= nextConv /\ id \notin conversations

\* C13: a successful delete removes the identifier, a deleted identifier stays
\* deleted, and every later fetch, delete or message for it answers
\* not-found; an identifier enters the store only by
\* its creation, with an empty message list, leaves it only by a successful
\* delete, and while it is in the store a fetch answers 200 with its list.
C13_DeletedStaysNotFound ==
  [][\A id \in ConvIds :
       /\ Deleted(id) => Deleted(id)'
       /\ \A r \in Reqs :
            (Deleted(id) /\ RequestOn(r, id)) =>
              (response'[r] = NotFound /\ pc'[r] = "notfound")
       /\ \A r \in Reqs :
            (DeleteConversation(r, id) /\ response'[r].status = 200) =>
              Deleted(id)'
       /\ (id \notin conversations /\ id \in conversations') =>
            (id = nextConv + 1 /\ messages'[id] = <<>>)
       /\ (id \in conversations /\ id \notin conversations') =>
            \E r \in Reqs :
              DeleteConversation(r, id) /\ response'[r].status = 200
       /\ \A r \in Reqs :
            (id \in conversations /\ GetConversation(r, id)) =>
              /\ response'[r].status = 200
              /\ response'[r].messages = messages[id]]_vars

C13_Witness ==
  \E r1, r2 \in Reqs :
    /\ r1 < r2
    /\ route[r1] = "delete" /\ response[r1].status = 200
    /\ route[r2] = "get" /\ response[r2] = NotFound

\* The error the claim assigns to a failure description.
ClaimedError(cause) ==
  LET key == Includes(cause, <<"API", "key">>)
      quota == Includes(cause, <<"quota">>)
      safety == Includes(cause, <<"safety">>)
  IN CASE key -> InvalidKey
       [] ~key /\ quota -> QuotaExceeded
       [] ~key /\ ~quota /\ safety -> ContentBlocked
       [] OTHER -> GenericFailure

\* C14: when the model call fails, either client method throws the one of
\* the four fixed errors chosen by what the failure description contains:
\* 'API key', else 'quota', else 'safety', else the generic error; the two
\* methods choose alike.
C14_ErrorClassification ==
  client.pc = "failed" =>
    /\ client.thrown = ClaimedError(client.caught)
    /\ client.thrown = ResponseError(client.caught)
    /\ client.thrown = StreamingError(client.caught)

C14_Witness ==
  /\ call.method = "generateStreamingResponse"
  /\ client.pc = "failed"
  /\ client.caught = <<"quota", "API", "key">>
  /\ client.thrown = InvalidKey

\* C15: a message request whose model client has rejected has ended with the
\* fixed text 'Failed to process message': as the 500 body on the
\* non-streaming route, as the one error event, written last, on the streaming
\* route; it has no success response and no complete event.
C15_FailureOutcome ==
  \A r \in Reqs : pc[r] = "failed" =>
    IF route[r] = "stream"
      THEN /\ Len(EventsOfType(r, "error")) = 1
           /\ events[r][Len(events[r])].type = "error"
           /\ events[r][Len(events[r])].data.error = "Failed to process message"
           /\ EventsOfType(r, "complete") = <<>>
           /\ response[r].status = 0
      ELSE /\ response[r].status = 500
           /\ response[r].error = "Failed to process message"
           /\ events[r] = <<>>

C15_Witness ==
  \E r1, r2 \in Reqs :
    /\ route[r1] = "stream" /\ pc[r1] = "failed"
    /\ Len(EventsOfType(r1, "text_chunk")) = 1
    /\ route[r2] = "message" /\ pc[r2] = "failed"

\* C16: an invocation calls the model at most once; when the call has failed
\* it was made once, and from then on nothing of the invocation changes: no
\* further call, event or response.
C16_NoRetry ==
  [][\A r \in Reqs :
       /\ inv'[r].calls <= 1
       /\ pc'[r] = "failed" => inv'[r].calls = 1
       /\ pc[r] = "failed" =>
            /\ pc'[r] = "failed"
            /\ inv'[r] = inv[r]
            /\ events'[r] = events[r]
            /\ response'[r] = response[r]]_vars

C16_Witness ==
  \E r1, r2 \in Reqs :
    /\ r1 < r2
    /\ pc[r1] = "failed" /\ inv[r1].calls = 1
    /\ pc[r2] = "done" /\ inv[r2].calls = 1

HasImagePart(parts) == \E i \in 1..Len(parts) : parts[i].t = "image"

\* C17: the assistant message of a completed invocation, streamed or not, has
\* an images field exactly when the model produced an image, and the field is
\* then not empty.
C17_ImagesFieldIffImage ==
  \A r \in Reqs : (pc[r] = "done" /\ route[r] \in {"stream", "message"}) =>
    /\ Len(AnswersOf(r)) = 1
    /\ ("images" \in DOMAIN AnswersOf(r)[1]) <=> HasImagePart(produced[r])
    /\ "images" \in DOMAIN AnswersOf(r)[1] => Len(AnswersOf(r)[1].images) > 0

C17_Witness ==
  \E r1, r2 \in Reqs :
    /\ route[r1] = "stream" /\ pc[r1] = "done"
    /\ produced[r1] # <<>> /\ "images" \notin DOMAIN AnswersOf(r1)[1]
    /\ route[r2] = "message" /\ pc[r2] = "done"
    /\ "images" \in DOMAIN AnswersOf(r2)[1]

\* The 'User: <content>' and 'Assistant: <content>' lines of a text, in order.
RECURSIVE TranscriptLines(_)
TranscriptLines(text) ==
  IF Len(text) < 3 THEN <<>>
  ELSE IF text[1] \in {"User", "Assistant"} /\ text[2] = ": "
    THEN LET rest == SubSeq(text, 3, Len(text))
             end == CHOOSE n \in 1..(Len(rest) + 1) :
                      /\ n = Len(rest) + 1 \/ rest[n] = "\n"
                      /\ \A k \in 1..(n - 1) : rest[k] # "\n"
         IN <<[role |-> text[1], content |-> SubSeq(rest, 1, end - 1)]>>
              \o TranscriptLines(SubSeq(rest, end + 1, Len(rest)))
    ELSE TranscriptLines(Tail(text))

\* C18: the context has a 'Previous conversation:' section exactly when the
\* list has more than one message; its role lines are then those of the
\* messages before the last, one each, in list order, with their contents;
\* the last message is not rendered; a single message gives no section and
\* no role line.
C18_TranscriptOfAllButLast ==
  client.pc = "built" =>
    LET msgs == call.messages
        n == Len(msgs)
        lines == TranscriptLines(client.context)
    IN /\ ("Previous conversation:\n" \in Range(client.context)) <=> n > 1
       /\ Len(lines) = n - 1
       /\ \A i \in 1..(n - 1) :
            /\ lines[i].role =
                 (IF msgs[i].role = "user" THEN "User" ELSE "Assistant")
            /\ lines[i].content = msgs[i].content
       /\ (\A i \in 1..(n - 1) : msgs[i].content # msgs[n].content) =>
            \A k \in 1..Len(msgs[n].content) :
              msgs[n].content[k] \notin Range(client.context)

C18_Witness ==
  /\ client.pc = "built"
  /\ Len(call.messages) = 4
  /\ call.messages[1].role = "user" /\ call.messages[1].content = <<"hi">>
  /\ call.messages[2].role = "assistant"
  /\ call.messages[3].role = "assistant"
  /\ call.messages[4].content = <<"yo">>
  /\ Len(TranscriptLines(client.context)) = 3

\* The images the claim attaches for one message: its input and its outputs.
ClaimedImages(msg) ==
  (IF "image" \in DOMAIN msg THEN {msg.image} ELSE {})
    \cup (IF "images" \in DOMAIN msg THEN Range(msg.images) ELSE {})

\* C19: the files attached to the prompt of a call, streaming or not, are the
\* current input image, if any, and the input and output images of the last
\* three messages of the list, as far as they are stored files.
C19_PromptAttachments ==
  client.pc = "built" =>
    LET msgs == call.messages
        recent == {i \in 1..Len(msgs) : i > Len(msgs) - 3}
    IN Range(client.attachments) =
         (({call.imagePath} \ {NoPath})
            \cup UNION {ClaimedImages(msgs[i]) : i \in recent})
           \cap DOMAIN uploads

ImageParts(parts) == SelectSeq(parts, LAMBDA p : p.t = "image")

\* C20: resolving the reference of a generated image an invocation has stored
\* gives the bytes the model emitted for it, now and ever after.
C20_RoundTrip ==
  \A r \in Reqs : \A i \in 1..Len(inv[r].generatedImages) :
    Resolve(uploads, inv[r].generatedImages[i]) =
      [status |-> 200, bytes |-> ImageParts(produced[r])[i].v]

\* result[name] as JavaScript reads it: undefined when the object has no such
\* property.
Field(object, name) ==
  IF name \in DOMAIN object THEN object[name] ELSE "undefined"

\* C21: for a reply with text and no image, generateResponse returns the
\* reply's text as result.text and null as result.image.
C21_TextOnlyResult ==
  (/\ client.pc = "returned"
   /\ PartsText(client.reply) # <<>>
   /\ ~HasImagePart(client.reply)) =>
    /\ client.result.text = PartsText(client.reply)
    /\ Field(client.result, "image") = "null"

\* The chunk events of a stream, in emission order.
ChunkEvents(r) == SelectSeq(events[r], IsChunk)

\* The kinds of fragment a sequence of chunk events reports, one per fragment:
\* a text_chunk reports the text parts its content is made of.
RECURSIVE FragmentsOf(_)
FragmentsOf(evs) ==
  IF evs = <<>> THEN <<>>
  ELSE (IF Head(evs).type = "text_chunk"
          THEN [k \in 1..Len(Head(evs).data.content) |-> "text"]
          ELSE <<"image">>)
         \o FragmentsOf(Tail(evs))

\* C22: on a stream that has not failed, the text and image fragments reported
\* by the chunk events come in the order of the text and image parts of the
\* model's output, also within one chunk of the model.
C22_EventsInModelOrder ==
  \A r \in Streams : pc[r] \in {"stream", "done"} =>
    FragmentsOf(ChunkEvents(r)) = [i \in 1..Len(produced[r]) |-> produced[r][i].t]

\* C23: each text_chunk event carries as fullText the contents of the
\* text_chunk events up to itself, concatenated; each image_chunk event carries
\* as allImages the images of the image_chunk events up to itself; this stays
\* so for an event whatever is emitted after it.
C23_RunningAccumulators ==
  \A r \in Streams : \A i \in 1..Len(events[r]) :
    LET e == events[r][i]
        before == SubSeq(events[r], 1, i)
    IN /\ e.type = "text_chunk" =>
            e.data.fullText =
              JoinContent(SelectSeq(before, LAMBDA x : x.type = "text_chunk"))
       /\ e.type = "image_chunk" =>
            e.data.allImages =
              RefsOf(SelectSeq(before, LAMBDA x : x.type = "image_chunk"))

C23_Witness ==
  \E r \in Streams :
    /\ Len(EventsOfType(r, "image_chunk")) = 2
    /\ Len(EventsOfType(r, "image_chunk")[1].data.allImages) = 1
    /\ Len(EventsOfType(r, "image_chunk")[2].data.allImages) = 2

\* The assistant-message identifiers carried by the events of a stream.
AssistantIdsOn(r) ==
  {events[r][i].data.id :
     i \in {k \in 1..Len(events[r]) :
              events[r][k].type \in {"assistant_message_start", "text_chunk",
                                     "image_chunk", "complete"}}}

\* C25: every chunk event and the complete event of a stream carry the
\* identifier its assistant_message_start event announced, and no two
\* streams carry the same assistant-message identifier.
C25_OneIdentifierPerStream ==
  /\ \A r \in Streams : events[r] # <<>> =>
       AssistantIdsOn(r) = {events[r][2].data.id}
  /\ \A r1, r2 \in Streams :
       r1 # r2 => AssistantIdsOn(r1) \cap AssistantIdsOn(r2) = {}

C25_Witness ==
  \E r1, r2 \in Streams :
    /\ r1 # r2
    /\ pc[r1] = "stream" /\ ChunkEvents(r1) # <<>>
    /\ pc[r2] = "done" /\ ChunkEvents(r2) # <<>>

\* C24: the file of every image reference carried by an image_chunk event or
\* by a message of a conversation is in the store; a stream has one
\* image_chunk event per image it has written, and when the model emitted an
\* image that has no image_chunk event the stream has failed: its last event is
\* the error event and it has no complete event.
C24_WrittenBeforeAnnounced ==
  /\ \A r \in Streams : \A i \in 1..Len(events[r]) :
       events[r][i].type = "image_chunk" =>
         events[r][i].data.image \in DOMAIN uploads
  /\ \A c \in ConvIds : \A i \in 1..Len(messages[c]) :
       \A j \in 1..Len(ImagesOf(messages[c][i])) :
         ImagesOf(messages[c][i])[j] \in DOMAIN uploads
  /\ \A r \in Streams :
       /\ RefsOf(EventsOfType(r, "image_chunk")) = inv[r].generatedImages
       /\ Len(ImageParts(produced[r])) > Len(EventsOfType(r, "image_chunk")) =>
            /\ pc[r] = "failed"
            /\ events[r][Len(events[r])] = ErrorEvent
            /\ EventsOfType(r, "complete") = <<>>

C24_Witness ==
  \E r \in Streams :
    /\ pc[r] = "failed"
    /\ Len(ImageParts(produced[r])) = 2
    /\ Len(EventsOfType(r, "image_chunk")) = 1
    /\ DOMAIN uploads = {EventsOfType(r, "image_chunk")[1].data.image}

\* What a stream has written to close itself.
Terminals(r) ==
  SelectSeq(events[r],
            LAMBDA e : e = Sentinel \/ e.type \in {"complete", "error"})

\* C26: a streaming invocation that has started on an existing conversation
\* ends; a stream that has ended wrote complete and then the sentinel, or the
\* error event, once and last, a stream that runs wrote none of them; an
\* ended stream writes nothing more.
C26_StreamCloses ==
  /\ \A r \in Reqs :
       (route[r] = "stream" /\ pc[r] = "stream") ~> (pc[r] \in {"done", "failed"})
  /\ [](\A r \in Streams :
         LET n == Len(events[r])
         IN /\ pc[r] = "stream" => Terminals(r) = <<>>
            /\ pc[r] = "done" =>
                 /\ Terminals(r) = <<events[r][n - 1], Sentinel>>
                 /\ events[r][n - 1].type = "complete"
                 /\ events[r][n] = Sentinel
            /\ pc[r] = "failed" =>
                 /\ Terminals(r) = <<ErrorEvent>>
                 /\ events[r][n] = ErrorEvent)
  /\ [][\A r \in Streams :
          pc[r] \in {"done", "failed"} =>
            (pc'[r] = pc[r] /\ events'[r] = events[r])]_vars

C26_Witness ==
  \E r1, r2 \in Streams :
    /\ pc[r1] = "done" /\ Len(Terminals(r1)) = 2
    /\ pc[r2] = "failed" /\ Len(Terminals(r2)) = 1
    /\ ChunkEvents(r2) # <<>>

\* The files a call looks for: the current image, and for generateResponse
\* the images of the last three messages.
LookedFor ==
  ({call.imagePath} \ {NoPath})
    \cup (IF call.method = "generateResponse"
            THEN UNION {ClaimedImages(call.messages[i]) :
                          i \in {k \in 1..Len(call.messages) :
                                   k > Len(call.messages) - 3}}
            ELSE {})

\* C27: whatever files are missing, a call gets to the model call; its prompt
\* then has the text, ending with the last message's content, and as
\* attachments the files it looks for that are stored, and no other.
C27_MissingFilesSkipped ==
  /\ (call.method # "none" /\ client.pc = "idle") => ENABLED NextPrompt
  /\ client.pc = "built" =>
       /\ Len(client.text) > Len(call.messages[Len(call.messages)].content)
       /\ SubSeq(client.text,
                 Len(client.text)
                   - Len(call.messages[Len(call.messages)].content) + 1,
                 Len(client.text))
            = call.messages[Len(call.messages)].content
       /\ Range(client.attachments) = LookedFor \cap DOMAIN uploads

C27_Witness ==
  /\ client.pc = "built"
  /\ call.method = "generateResponse"
  /\ LookedFor \ DOMAIN uploads # {}
  /\ Len(client.attachments) >= 2

IsPrefix(short, long) ==
  Len(short) <= Len(long) /\ SubSeq(long, 1, Len(short)) = short

\* An assistant message as its invocation finalized it.
Finalized(m) ==
  LET q == ReqOf(m.id)
  IN /\ pc[q] = "done"
     /\ route[q] = "stream" => EventsOfType(q, "complete") = <<Event("complete", m)>>
     /\ route[q] = "message" => response[q].assistantMessage = m

\* C28: while a conversation exists its list only grows at the end: what is in
\* it stays, at its place and as it is; every assistant message in the list,
\* and in the list a fetch has returned, is a finalized one; and what a fetch
\* has returned is the beginning of the list as long as the conversation
\* exists.
C28_AppendOnlyAndFinal ==
  /\ [][\A c \in ConvIds :
          (c \in conversations /\ c \in conversations') =>
            IsPrefix(messages[c], messages'[c])]_vars
  /\ [](\A c \in conversations : \A i \in 1..Len(messages[c]) :
          messages[c][i].role = "assistant" => Finalized(messages[c][i]))
  /\ [](\A r \in Reqs : (route[r] = "get" /\ pc[r] = "done") =>
          /\ \A i \in 1..Len(response[r].messages) :
               response[r].messages[i].role = "assistant" =>
                 Finalized(response[r].messages[i])
          /\ response[r].id \in conversations =>
               IsPrefix(response[r].messages, messages[response[r].id]))

C28_Witness ==
  \E r1, r2 \in Reqs :
    /\ route[r1] = "stream" /\ pc[r1] = "stream"
    /\ inv[r1].assistantMessageText # <<>>
    /\ route[r2] = "get" /\ pc[r2] = "done"
    /\ response[r2].messages = <<inv[r1].userMessage>>

\* Request r is a fetch, a delete or a text message for id.
RaceRequestOn(r, id) ==
  \/ GetConversation(r, id)
  \/ DeleteConversation(r, id)
  \/ \E message \in PromptTexts :
       \/ StreamStart(r, id, message, FALSE)
       \/ MessageStart(r, id, message, FALSE)

\* C29: a deleted identifier stays deleted, also when an invocation that was
\* in flight on it finalizes: the finalization leaves the set of
\* conversations and every other conversation's list as they are, and every
\* fetch, delete or message for a deleted identifier answers not-found.
C29_NoResurrection ==
  [][\A id \in RaceConvs :
       /\ Deleted(id) => Deleted(id)'
       /\ \A r \in RaceReqs :
            (Deleted(id) /\ RaceRequestOn(r, id)) =>
              (response'[r] = NotFound /\ pc'[r] = "notfound")
       /\ \A r \in RaceReqs :
            (conv[r] = id /\ pc[r] \in {"stream", "call"} /\ pc'[r] = "done") =>
              /\ conversations' = conversations
              /\ \A c \in RaceConvs \ {id} : messages'[c] = messages[c]]_vars

C29_Witness ==
  \E r1, r2, r3 \in RaceReqs :
    /\ r1 < r2 /\ r2 < r3
    /\ route[r1] = "stream" /\ pc[r1] = "done" /\ conv[r1] = 1
    /\ route[r2] = "delete" /\ pc[r2] = "done"
    /\ route[r3] = "message" /\ pc[r3] = "notfound"
    /\ conversations = {2}
    /\ Len(messages[1]) = 2 /\ messages[2] = <<>>

\* The position of the user message of r in the list of its conversation.
OwnIndex(r) ==
  CHOOSE i \in 1..Len(messages[conv[r]]) :
    messages[conv[r]][i].id = UserMessageId(r)

\* C30: the prompt text of an invocation ends with the content of its own
\* user message, and the role lines before it are those of the messages that
\* precede that user message in the conversation's list, all of them, in
\* order; whatever other invocations on the conversation do meanwhile.
C30_PromptOfOwnMessage ==
  \A r \in RaceReqs :
    (route[r] \in {"stream", "message"} /\ pc[r] \in {"stream", "call", "done"}) =>
      LET list == messages[conv[r]]
          k == OwnIndex(r)
          own == list[k].content
          prompt == inv[r].prompt
          transcript == SubSeq(prompt, 1, Len(prompt) - Len(own))
      IN /\ list[k] = inv[r].userMessage
         /\ Len(prompt) > Len(own)
         /\ SubSeq(prompt, Len(prompt) - Len(own) + 1, Len(prompt)) = own
         /\ TranscriptLines(transcript) =
              [i \in 1..(k - 1) |->
                 [role |-> IF list[i].role = "user" THEN "User" ELSE "Assistant",
                  content |-> list[i].content]]

C30_Witness ==
  \E r1, r2 \in RaceReqs :
    /\ r1 < r2
    /\ conv[r1] = 1 /\ conv[r2] = 1
    /\ pc[r1] = "done" /\ pc[r2] = "stream"
    /\ [i \in 1..3 |-> messages[1][i].id] =
         <<UserMessageId(r1), UserMessageId(r2), AssistantMessageId(r1)>>
    /\ inv[r1].userMessage.content = <<"hi">>
    /\ inv[r2].userMessage.content = <<"yo">>
    /\ Len(TranscriptLines(inv[r2].prompt)) = 1

NoDuplicates(seq) ==
  \A i, j \in 1..Len(seq) : i # j => seq[i] # seq[j]

\* C31: when the messages of the list refer to different images, the files
\* generateResponse attaches to the prompt are all different, also when the
\* last message carries the current input image.
C31_AttachedAtMostOnce ==
  (/\ client.pc = "built"
   /\ call.method = "generateResponse"
   /\ NoDuplicates(RecentImages(call.messages))) =>
    NoDuplicates(client.attachments)

====
